---- MODULE Spec2Model ----
(***************************************************************************)
(* Ledger engine of hashedone/transaction (src/src/engine.rs,              *)
(* src/src/client.rs, src/src/decimal.rs).                                 *)
(*                                                                         *)
(* A Decimal is its scaled i64 value, modelled as an integer; amounts are  *)
(* drawn from a small signed range, far from the i64 limits, so no         *)
(* addition overflows.  The engine is the pair (clients, history) of       *)
(* HashMaps, modelled as functions whose DOMAIN is the set of keys.        *)
(***************************************************************************)
EXTENDS Integers, FiniteSets, Sequences, TLC

\* ---- bounds of the model -------------------------------------------------
MaxCid == 2
MaxTx == 2
MaxAmount == 2
MaxRecords == 5

Cids == 1..MaxCid
Txs == 1..MaxTx
\* Decimal is a signed i64 (decimal.rs:19) and from_str accepts a leading '-'
\* (decimal.rs:66): negative amounts reach the engine.
Amounts == (0 - 1)..MaxAmount

VARIABLES
    clients,      \* Engine.clients : cid -> Client
    history,      \* Engine.history : tx -> HistoryEntry
    pc,           \* position in process(): "loop", "done", "panic"
    processed,    \* number of records the loop has taken from the input
    output,       \* the clients yielded by into_clients
    last,         \* the record of the latest loop iteration and its result
    before,       \* the engine as the latest loop iteration found it
    origin,       \* tx -> kind of the record that logged the entry
    resolved,     \* txs for which a resolve has been accepted
    chargedback,  \* txs for which a chargeback has been accepted
    decimal,      \* the Decimal under conversion: its text, its value, the steps taken
    transactions  \* the input of process() where it is fixed when the run starts

vars == <<clients, history, pc, processed, output, last, before, origin, resolved, chargedback, decimal, transactions>>

\* ---- client.rs -----------------------------------------------------------
Client_new(cid) ==
    [cid |-> cid, available |-> 0, held |-> 0, locked |-> FALSE]

\* impl From<Client> for OutputClient: the row the output boundary renders
OutputClient(c) ==
    [client |-> c.cid, available |-> c.available, held |-> c.held,
     total |-> c.available + c.held, locked |-> c.locked]

\* the guard forgotten: a locked client passes
ensure_unlocked_always(c) == TRUE

\* Ok(()) is TRUE, Err is FALSE
ensure_unlocked(c) == ~c.locked

\* ---- engine.rs : helpers -------------------------------------------------
\* the cross-check forgotten: any supplied client id passes
cid_matches_always(expected, occured) == TRUE

cid_matches(expected, occured) == ~(expected # occured)

ensure_deposit(entry) == ~(entry.amount < 0)

\* the guard forgotten: an undisputed entry passes
ensure_disputed_always(entry) == TRUE

ensure_disputed(entry) == ~(~entry.disputed)

\* the guard forgotten: an entry under dispute passes
ensure_not_disputed_always(entry) == TRUE

ensure_not_disputed(entry) == ~entry.disputed

Engine_new == [clients |-> <<>>, history |-> <<>>]

log(e, tx, cid, amount) ==
    [e EXCEPT !.history =
        [t \in (DOMAIN e.history) \cup {tx} |->
            IF t = tx
            THEN [cid |-> cid, amount |-> amount, disputed |-> FALSE]
            ELSE e.history[t]]]

\* entry(cid).or_insert_with(|| Client::new(cid))
client(e, cid) ==
    IF cid \in DOMAIN e.clients
    THEN e
    ELSE [e EXCEPT !.clients =
            [c \in (DOMAIN e.clients) \cup {cid} |->
                IF c = cid THEN Client_new(cid) ELSE e.clients[c]]]

client_mut(e, cid) == client(e, cid)

\* the guard forgotten: a tx already in history passes
ensure_unique_always(e, tx) == TRUE

ensure_unique(e, tx) == ~(tx \in DOMAIN e.history)

Ok(e) == [engine |-> e, res |-> "Ok"]
Err(e) == [engine |-> e, res |-> "Err"]
Panic(e) == [engine |-> e, res |-> "Panic"]

\* the balance assigned instead of increased: available = amount
process_deposit_sets_available(e, tx, cid, amount) ==
    IF tx \in DOMAIN e.history THEN [engine |-> e, res |-> "Err"]
    ELSE LET e1 == client_mut(e, cid) IN
         IF e1.clients[cid].locked THEN [engine |-> e1, res |-> "Err"]
         ELSE LET e2 == [e1 EXCEPT !.clients[cid].available = amount]
              IN [engine |-> log(e2, tx, cid, amount), res |-> "Ok"]

process_deposit(e, tx, cid, amount) ==
    IF ~ensure_unique(e, tx) THEN Err(e)
    ELSE LET e1 == client_mut(e, cid) IN
         IF ~ensure_unlocked(e1.clients[cid]) THEN Err(e1)
         ELSE LET e2 == [e1 EXCEPT !.clients[cid].available = @ + amount]
              IN Ok(log(e2, tx, cid, amount))

\* the debit moved before the funds check: a rejected withdrawal keeps it
process_whitdrawal_debit_first(e, tx, cid, amount) ==
    IF tx \in DOMAIN e.history THEN [engine |-> e, res |-> "Err"]
    ELSE LET e1 == client_mut(e, cid) IN
         IF e1.clients[cid].locked THEN [engine |-> e1, res |-> "Err"]
         ELSE LET e2 == [e1 EXCEPT !.clients[cid].available = @ - amount] IN
              IF e1.clients[cid].available >= amount
              THEN [engine |-> log(e2, tx, cid, 0 - amount), res |-> "Ok"]
              ELSE [engine |-> e2, res |-> "Err"]

\* the entry logged before the funds check: a rejected withdrawal reserves
\* its tx
process_whitdrawal_reserves_tx(e, tx, cid, amount) ==
    IF tx \in DOMAIN e.history THEN [engine |-> e, res |-> "Err"]
    ELSE LET e1 == client_mut(e, cid) IN
         IF e1.clients[cid].locked THEN [engine |-> e1, res |-> "Err"]
         ELSE LET e2 == log(e1, tx, cid, 0 - amount) IN
              IF e1.clients[cid].available >= amount
              THEN [engine |-> [e2 EXCEPT !.clients[cid].available = @ - amount],
                    res |-> "Ok"]
              ELSE [engine |-> e2, res |-> "Err"]

\* the funds check made strict: withdrawing the whole balance is refused
process_whitdrawal_strict(e, tx, cid, amount) ==
    IF tx \in DOMAIN e.history THEN [engine |-> e, res |-> "Err"]
    ELSE LET e1 == client_mut(e, cid) IN
         IF e1.clients[cid].locked THEN [engine |-> e1, res |-> "Err"]
         ELSE IF e1.clients[cid].available > amount
              THEN LET e2 == [e1 EXCEPT !.clients[cid].available = @ - amount]
                   IN [engine |-> log(e2, tx, cid, 0 - amount), res |-> "Ok"]
              ELSE [engine |-> e1, res |-> "Err"]

process_whitdrawal(e, tx, cid, amount) ==
    IF ~ensure_unique(e, tx) THEN Err(e)
    ELSE LET e1 == client_mut(e, cid) IN
         IF ~ensure_unlocked(e1.clients[cid]) THEN Err(e1)
         ELSE IF e1.clients[cid].available >= amount
              THEN LET e2 == [e1 EXCEPT !.clients[cid].available = @ - amount]
                   IN Ok(log(e2, tx, cid, 0 - amount))
              ELSE Err(e1)

\* an unknown tx treated as nothing to do: the dispute returns Ok
process_dispute_unknown_ok(e, tx, cid) ==
    LET e1 == client(e, cid) IN
    IF e1.clients[cid].locked THEN [engine |-> e1, res |-> "Err"]
    ELSE IF tx \notin DOMAIN e1.history THEN [engine |-> e1, res |-> "Ok"]
    ELSE LET entry == e1.history[tx] IN
         IF entry.cid # cid \/ entry.amount < 0 \/ entry.disputed
         THEN [engine |-> e1, res |-> "Err"]
         ELSE [engine |->
                 [e1 EXCEPT !.history[tx].disputed = TRUE,
                            !.clients[cid].available = @ - entry.amount,
                            !.clients[cid].held = @ + entry.amount],
               res |-> "Ok"]

\* the history lookup moved before the client lookup: a dispute of an unknown
\* tx returns before the account is created
process_dispute_lookup_first(e, tx, cid) ==
    IF tx \notin DOMAIN e.history THEN [engine |-> e, res |-> "Err"]
    ELSE LET e1 == client(e, cid)
             entry == e1.history[tx]
         IN IF e1.clients[cid].locked \/ entry.cid # cid \/ entry.amount < 0
               \/ entry.disputed
            THEN [engine |-> e1, res |-> "Err"]
            ELSE [engine |->
                    [e1 EXCEPT !.history[tx].disputed = TRUE,
                               !.clients[cid].available = @ - entry.amount,
                               !.clients[cid].held = @ + entry.amount],
                  res |-> "Ok"]

\* a funds check added: a dispute that would create debt is refused
process_dispute_no_debt(e, tx, cid) ==
    LET e1 == client(e, cid) IN
    IF e1.clients[cid].locked THEN [engine |-> e1, res |-> "Err"]
    ELSE IF tx \notin DOMAIN e1.history THEN [engine |-> e1, res |-> "Err"]
    ELSE LET entry == e1.history[tx] IN
         IF entry.cid # cid \/ entry.amount < 0 \/ entry.disputed
            \/ e1.clients[cid].available < entry.amount
         THEN [engine |-> e1, res |-> "Err"]
         ELSE [engine |->
                 [e1 EXCEPT !.history[tx].disputed = TRUE,
                            !.clients[cid].available = @ - entry.amount,
                            !.clients[cid].held = @ + entry.amount],
               res |-> "Ok"]

process_dispute(e, tx, cid) ==
    LET e1 == client(e, cid) IN
    IF ~ensure_unlocked(e1.clients[cid]) THEN Err(e1)
    ELSE IF tx \notin DOMAIN e1.history THEN Err(e1)
    ELSE LET entry == e1.history[tx] IN
         IF ~cid_matches(entry.cid, cid) THEN Err(e1)
         ELSE IF ~ensure_deposit(entry) THEN Err(e1)
         ELSE IF ~ensure_not_disputed(entry) THEN Err(e1)
         ELSE LET amount == entry.amount
                  e2 == [e1 EXCEPT !.history[tx].disputed = TRUE]
                  e3 == client_mut(e2, cid)
              IN Ok([e3 EXCEPT !.clients[cid].available = @ - amount,
                               !.clients[cid].held = @ + amount])

\* the flag left set: a resolved entry stays disputed
process_resolve_keeps_flag(e, tx, cid) ==
    LET e1 == client(e, cid) IN
    IF e1.clients[cid].locked THEN [engine |-> e1, res |-> "Err"]
    ELSE IF tx \notin DOMAIN e1.history THEN [engine |-> e1, res |-> "Err"]
    ELSE LET entry == e1.history[tx] IN
         IF entry.cid # cid \/ ~entry.disputed
         THEN [engine |-> e1, res |-> "Err"]
         ELSE [engine |->
                 [e1 EXCEPT !.clients[cid].available = @ + entry.amount,
                            !.clients[cid].held = @ - entry.amount],
               res |-> "Ok"]

\* the held amount left in place: a resolve only credits available
process_resolve_keeps_held(e, tx, cid) ==
    LET e1 == client(e, cid) IN
    IF e1.clients[cid].locked THEN [engine |-> e1, res |-> "Err"]
    ELSE IF tx \notin DOMAIN e1.history THEN [engine |-> e1, res |-> "Err"]
    ELSE LET entry == e1.history[tx] IN
         IF entry.cid # cid \/ ~entry.disputed
         THEN [engine |-> e1, res |-> "Err"]
         ELSE [engine |->
                 [e1 EXCEPT !.history[tx].disputed = FALSE,
                            !.clients[cid].available = @ + entry.amount],
               res |-> "Ok"]

process_resolve(e, tx, cid) ==
    LET e1 == client(e, cid) IN
    IF ~ensure_unlocked(e1.clients[cid]) THEN Err(e1)
    ELSE IF tx \notin DOMAIN e1.history THEN Err(e1)
    ELSE LET entry == e1.history[tx] IN
         IF ~cid_matches(entry.cid, cid) THEN Err(e1)
         ELSE IF ~ensure_disputed(entry) THEN Err(e1)
         ELSE LET amount == entry.amount
                  e2 == [e1 EXCEPT !.history[tx].disputed = FALSE]
                  e3 == client_mut(e2, cid)
              IN Ok([e3 EXCEPT !.clients[cid].available = @ + amount,
                               !.clients[cid].held = @ - amount])

\* the held amount left in place: a chargeback only locks the client
process_chargeback_keeps_held(e, tx, cid) ==
    LET e1 == client(e, cid) IN
    IF e1.clients[cid].locked THEN [engine |-> e1, res |-> "Err"]
    ELSE IF tx \notin DOMAIN e1.history THEN [engine |-> e1, res |-> "Err"]
    ELSE LET entry == e1.history[tx] IN
         IF entry.cid # cid \/ ~entry.disputed
         THEN [engine |-> e1, res |-> "Err"]
         ELSE LET e2 == [e1 EXCEPT !.history[tx].disputed = FALSE] IN
              IF e2.clients[cid].held < entry.amount
              THEN [engine |-> e2, res |-> "Panic"]
              ELSE [engine |-> [e2 EXCEPT !.clients[cid].locked = TRUE],
                    res |-> "Ok"]

\* the held amount handed back as in a resolve: a chargeback credits available
process_chargeback_refunds(e, tx, cid) ==
    LET e1 == client(e, cid) IN
    IF e1.clients[cid].locked THEN [engine |-> e1, res |-> "Err"]
    ELSE IF tx \notin DOMAIN e1.history THEN [engine |-> e1, res |-> "Err"]
    ELSE LET entry == e1.history[tx] IN
         IF entry.cid # cid \/ ~entry.disputed
         THEN [engine |-> e1, res |-> "Err"]
         ELSE LET e2 == [e1 EXCEPT !.history[tx].disputed = FALSE] IN
              IF e2.clients[cid].held < entry.amount
              THEN [engine |-> e2, res |-> "Panic"]
              ELSE [engine |->
                      [e2 EXCEPT !.clients[cid].held = @ - entry.amount,
                                 !.clients[cid].available = @ + entry.amount,
                                 !.clients[cid].locked = TRUE],
                    res |-> "Ok"]

\* the lock forgotten: a chargeback only releases the held amount
process_chargeback_no_lock(e, tx, cid) ==
    LET e1 == client(e, cid) IN
    IF e1.clients[cid].locked THEN [engine |-> e1, res |-> "Err"]
    ELSE IF tx \notin DOMAIN e1.history THEN [engine |-> e1, res |-> "Err"]
    ELSE LET entry == e1.history[tx] IN
         IF entry.cid # cid \/ ~entry.disputed
         THEN [engine |-> e1, res |-> "Err"]
         ELSE LET e2 == [e1 EXCEPT !.history[tx].disputed = FALSE] IN
              IF e2.clients[cid].held < entry.amount
              THEN [engine |-> e2, res |-> "Panic"]
              ELSE [engine |-> [e2 EXCEPT !.clients[cid].held = @ - entry.amount],
                    res |-> "Ok"]

\* assert!(client.held >= amount) panics after entry.disputed was cleared
process_chargeback(e, tx, cid) ==
    LET e1 == client(e, cid) IN
    IF ~ensure_unlocked(e1.clients[cid]) THEN Err(e1)
    ELSE IF tx \notin DOMAIN e1.history THEN Err(e1)
    ELSE LET entry == e1.history[tx] IN
         IF ~cid_matches(entry.cid, cid) THEN Err(e1)
         ELSE IF ~ensure_disputed(entry) THEN Err(e1)
         ELSE LET amount == entry.amount
                  e2 == [e1 EXCEPT !.history[tx].disputed = FALSE]
                  e3 == client_mut(e2, cid)
              IN IF ~(e3.clients[cid].held >= amount) THEN Panic(e3)
                 ELSE Ok([e3 EXCEPT !.clients[cid].held = @ - amount,
                                    !.clients[cid].locked = TRUE])

\* transaction.rs : enum Transaction; amount is 0 where the variant has none
Transaction(kind, tx, cid, amount) ==
    [kind |-> kind, tx |-> tx, cid |-> cid, amount |-> amount]

process_transaction(e, t) ==
    CASE t.kind = "deposit" -> process_deposit(e, t.tx, t.cid, t.amount)
      [] t.kind = "withdrawal" -> process_whitdrawal(e, t.tx, t.cid, t.amount)
      [] t.kind = "dispute" -> process_dispute(e, t.tx, t.cid)
      [] t.kind = "resolve" -> process_resolve(e, t.tx, t.cid)
      [] t.kind = "chargeback" -> process_chargeback(e, t.tx, t.cid)

\* ---- the state machine: process() ----------------------------------------
Engine == [clients |-> clients, history |-> history]

NoRecord == [kind |-> "none", tx |-> 0, cid |-> 0, amount |-> 0, res |-> "none"]

\* no conversion under way: the engine run converts nothing
NoDecimal == [from |-> "none", d0 |-> 0, s0 |-> <<>>, text |-> <<>>, value |-> 0, ok |-> TRUE, n |-> 0]

Init ==
    /\ clients = Engine_new.clients
    /\ history = Engine_new.history
    /\ pc = "loop"
    /\ processed = 0
    /\ output = {}
    /\ last = NoRecord
    /\ before = Engine_new
    /\ origin = <<>>
    /\ resolved = {}
    /\ chargedback = {}
    /\ decimal = NoDecimal
    /\ transactions = <<>>

\* the values one iteration of `for transaction in transactions` leaves:
\* engine.process_transaction(transaction).ok()
\* the record is taken from the input and dropped: nothing is applied
Iterate_skip(t) ==
    [clients |-> clients,
     history |-> history,
     pc |-> "loop",
     last |-> [kind |-> t.kind, tx |-> t.tx, cid |-> t.cid,
               amount |-> t.amount, res |-> "Err"],
     origin |-> origin,
     resolved |-> resolved,
     chargedback |-> chargedback]

Iterate(t) ==
    LET r == process_transaction(Engine, t) IN
    [clients |-> r.engine.clients,
     history |-> r.engine.history,
     pc |-> IF r.res = "Panic" THEN "panic" ELSE "loop",
     last |-> [kind |-> t.kind, tx |-> t.tx, cid |-> t.cid,
               amount |-> t.amount, res |-> r.res],
     origin |-> IF r.res = "Ok" /\ t.kind \in {"deposit", "withdrawal"}
                THEN [x \in (DOMAIN origin) \cup {t.tx} |->
                         IF x = t.tx THEN t.kind ELSE origin[x]]
                ELSE origin,
     resolved |-> IF r.res = "Ok" /\ t.kind = "resolve"
                  THEN resolved \cup {t.tx} ELSE resolved,
     chargedback |-> IF r.res = "Ok" /\ t.kind = "chargeback"
                     THEN chargedback \cup {t.tx} ELSE chargedback]

Deposit ==
    /\ pc = "loop"
    /\ processed < MaxRecords
    /\ \E tx \in Txs, cid \in Cids, amount \in Amounts :
        LET n == Iterate(Transaction("deposit", tx, cid, amount)) IN
        /\ clients' = n.clients
        /\ history' = n.history
        /\ pc' = n.pc
        /\ last' = n.last
        /\ origin' = n.origin
        /\ resolved' = n.resolved
        /\ chargedback' = n.chargedback
    /\ processed' = processed + 1
    /\ before' = Engine
    /\ UNCHANGED <<output, decimal, transactions>>

Withdrawal ==
    /\ pc = "loop"
    /\ processed < MaxRecords
    /\ \E tx \in Txs, cid \in Cids, amount \in Amounts :
        LET n == Iterate(Transaction("withdrawal", tx, cid, amount)) IN
        /\ clients' = n.clients
        /\ history' = n.history
        /\ pc' = n.pc
        /\ last' = n.last
        /\ origin' = n.origin
        /\ resolved' = n.resolved
        /\ chargedback' = n.chargedback
    /\ processed' = processed + 1
    /\ before' = Engine
    /\ UNCHANGED <<output, decimal, transactions>>

Dispute ==
    /\ pc = "loop"
    /\ processed < MaxRecords
    /\ \E tx \in Txs, cid \in Cids :
        LET n == Iterate(Transaction("dispute", tx, cid, 0)) IN
        /\ clients' = n.clients
        /\ history' = n.history
        /\ pc' = n.pc
        /\ last' = n.last
        /\ origin' = n.origin
        /\ resolved' = n.resolved
        /\ chargedback' = n.chargedback
    /\ processed' = processed + 1
    /\ before' = Engine
    /\ UNCHANGED <<output, decimal, transactions>>

Resolve ==
    /\ pc = "loop"
    /\ processed < MaxRecords
    /\ \E tx \in Txs, cid \in Cids :
        LET n == Iterate(Transaction("resolve", tx, cid, 0)) IN
        /\ clients' = n.clients
        /\ history' = n.history
        /\ pc' = n.pc
        /\ last' = n.last
        /\ origin' = n.origin
        /\ resolved' = n.resolved
        /\ chargedback' = n.chargedback
    /\ processed' = processed + 1
    /\ before' = Engine
    /\ UNCHANGED <<output, decimal, transactions>>

Chargeback ==
    /\ pc = "loop"
    /\ processed < MaxRecords
    /\ \E tx \in Txs, cid \in Cids :
        LET n == Iterate(Transaction("chargeback", tx, cid, 0)) IN
        /\ clients' = n.clients
        /\ history' = n.history
        /\ pc' = n.pc
        /\ last' = n.last
        /\ origin' = n.origin
        /\ resolved' = n.resolved
        /\ chargedback' = n.chargedback
    /\ processed' = processed + 1
    /\ before' = Engine
    /\ UNCHANGED <<output, decimal, transactions>>

\* the input is exhausted: Ok(engine.into_clients())
into_clients ==
    /\ pc = "loop"
    /\ pc' = "done"
    /\ output' = {clients[c] : c \in DOMAIN clients}
    /\ UNCHANGED <<clients, history, processed, last, before, origin, resolved, chargedback, decimal, transactions>>

Next ==
    \/ Deposit
    \/ Withdrawal
    \/ Dispute
    \/ Resolve
    \/ Chargeback
    \/ into_clients

Spec == Init /\ [][Next]_vars

TypeOK ==
    /\ DOMAIN clients \subseteq Cids
    /\ DOMAIN history \subseteq Txs
    /\ \A c \in DOMAIN clients :
         /\ clients[c].cid = c
         /\ clients[c].available \in Int
         /\ clients[c].held \in Int
         /\ clients[c].locked \in BOOLEAN
    /\ \A t \in DOMAIN history :
         /\ history[t].cid \in Cids
         /\ history[t].amount \in Int
         /\ history[t].disputed \in BOOLEAN
    /\ pc \in {"loop", "done", "panic"}
    /\ DOMAIN origin = DOMAIN history

\* ---- Decimal: text conversion ---------------------------------------------
\* A text is a sequence of one-character strings. Decimal(i64) is its scaled
\* integer.
MaxScaled == 25000     \* the scaled integers rendered: -MaxScaled..MaxScaled
MaxIntLen == 2         \* digits of the integral part of an input text: 0..MaxIntLen
MaxFracLen == 5        \* digits after the dot of an input text: 0..MaxFracLen
MaxSteps == 4          \* conversions applied in a row to one input

DigitChars == <<"0", "1", "2", "3", "4", "5", "6", "7", "8", "9">>
is_digit(c) == \E i \in 1..10 : DigitChars[i] = c
digit_value(c) == (CHOOSE i \in 1..10 : DigitChars[i] = c) - 1

\* the digits the input texts are written with: zero and one that is not zero
InputDigits == {"0", "7"}

\* Decimal::new
Decimal_new(integral, fractional) == integral * 10000 + fractional

\* "{}" of a non-negative i64: its decimal digits
RECURSIVE fmt_i64(_)
fmt_i64(n) ==
    IF n < 10 THEN <<DigitChars[n + 1]>>
    ELSE fmt_i64(n \div 10) \o <<DigitChars[(n % 10) + 1]>>

\* no padding at all: the fractional digits lose their leading zeros
fill_none(r) == <<>>

\* the zeros that pad the fractional digits to four places
fill(r) ==
    IF r = 0 THEN <<>>
    ELSE IF r < 10 THEN <<"0", "0", "0">>
    ELSE IF r < 100 THEN <<"0", "0">>
    ELSE IF r < 1000 THEN <<"0">>
    ELSE <<>>

\* while r % 10 == 0 && r != 0 { r /= 10 }
RECURSIVE strip_zeros(_)
strip_zeros(r) == IF r % 10 = 0 /\ r # 0 THEN strip_zeros(r \div 10) ELSE r

\* impl Display for Decimal
to_string(d) ==
    LET s == IF d < 0 THEN <<"-">> ELSE <<>>
        dec == IF d < 0 THEN 0 - d ELSE d
        l == dec \div 10000
        r == dec % 10000
    IN s \o fmt_i64(l) \o <<".">> \o fill(r) \o fmt_i64(strip_zeros(r))

\* str::trim
RECURSIVE trim_start(_)
trim_start(s) == IF s # <<>> /\ Head(s) = " " THEN trim_start(Tail(s)) ELSE s
RECURSIVE trim_end(_)
trim_end(s) ==
    IF s # <<>> /\ s[Len(s)] = " " THEN trim_end(SubSeq(s, 1, Len(s) - 1)) ELSE s
trim(s) == trim_end(trim_start(s))

\* str::strip_prefix
strip_prefix(s, c) ==
    IF s # <<>> /\ Head(s) = c THEN [some |-> TRUE, rest |-> Tail(s)]
    ELSE [some |-> FALSE, rest |-> s]

\* str::split: the parts between the occurrences of c, at least one part
RECURSIVE split(_, _)
split(s, c) ==
    IF \A i \in 1..Len(s) : s[i] # c THEN <<s>>
    ELSE LET i == CHOOSE k \in 1..Len(s) : s[k] = c /\ \A j \in 1..(k - 1) : s[j] # c
         IN <<SubSeq(s, 1, i - 1)>> \o split(SubSeq(s, i + 1, Len(s)), c)

\* the value of a sequence of digits
RECURSIVE digits_value(_)
digits_value(s) ==
    IF s = <<>> THEN 0
    ELSE digits_value(SubSeq(s, 1, Len(s) - 1)) * 10 + digit_value(s[Len(s)])

\* str::parse::<i64>: an optional sign, then one digit or more
parse_i64(s) ==
    LET signed == s # <<>> /\ Head(s) \in {"+", "-"}
        digits == IF signed THEN Tail(s) ELSE s
    IN IF digits = <<>> \/ \E i \in 1..Len(digits) : ~is_digit(digits[i])
       THEN [ok |-> FALSE, value |-> 0]
       ELSE [ok |-> TRUE,
             value |-> IF signed /\ Head(s) = "-" THEN 0 - digits_value(digits)
                       ELSE digits_value(digits)]

\* impl FromStr for Decimal
from_str(text) ==
    LET s == trim(text)
        p == strip_prefix(s, "-")
        sign == IF p.some THEN 0 - 1 ELSE 1
        parts == split(p.rest, ".")
        l == parse_i64(parts[1])
        r == IF Len(parts) < 2 \/ parts[2] = <<>> THEN [ok |-> TRUE, value |-> 0]
             ELSE LET f == parts[2]
                      q == IF Len(f) < 4 THEN parse_i64(f) ELSE parse_i64(SubSeq(f, 1, 4))
                  IN IF Len(f) = 1 THEN [q EXCEPT !.value = @ * 1000]
                     ELSE IF Len(f) = 2 THEN [q EXCEPT !.value = @ * 100]
                     ELSE IF Len(f) = 3 THEN [q EXCEPT !.value = @ * 10]
                     ELSE q
    IN IF ~l.ok THEN [ok |-> FALSE, value |-> 0]
       ELSE IF ~r.ok THEN [ok |-> FALSE, value |-> 0]
       ELSE IF Len(parts) > 2 THEN [ok |-> FALSE, value |-> 0]
       ELSE [ok |-> TRUE, value |-> sign * (l.value * 10000 + r.value)]

\* the input texts: padding, sign, integral digits, dot and fractional digits,
\* and a second dot for some
RECURSIVE DigitStrings(_)
DigitStrings(n) ==
    IF n = 0 THEN {<<>>}
    ELSE {<<c>> \o t : c \in InputDigits, t \in DigitStrings(n - 1)}

Scaled == (0 - MaxScaled)..MaxScaled

Texts ==
    LET ints == UNION {DigitStrings(n) : n \in 0..MaxIntLen}
        fracs == {<<>>} \cup {<<".">> \o f : f \in UNION {DigitStrings(n) : n \in 0..MaxFracLen}}
    IN {pad \o sg \o i \o f \o tl \o pad :
           pad \in {<<>>, <<" ">>}, sg \in {<<>>, <<"-">>, <<"+">>},
           i \in ints, f \in fracs, tl \in {<<>>, <<".", "1">>}}

\* a conversion starts from a Decimal to render or from a text to parse
InitDecimal ==
    /\ clients = Engine_new.clients
    /\ history = Engine_new.history
    /\ pc = "loop"
    /\ processed = 0
    /\ output = {}
    /\ last = NoRecord
    /\ before = Engine_new
    /\ origin = <<>>
    /\ resolved = {}
    /\ chargedback = {}
    /\ transactions = <<>>
    /\ \/ \E d \in Scaled :
             decimal = [from |-> "value", d0 |-> d, s0 |-> <<>>, text |-> <<>>,
                        value |-> d, ok |-> TRUE, n |-> 0]
       \/ \E s \in Texts :
             decimal = [from |-> "text", d0 |-> 0, s0 |-> s, text |-> s,
                        value |-> 0, ok |-> TRUE, n |-> 0]

\* the value held is rendered: to_string()
Display ==
    /\ decimal.ok
    /\ decimal.n < MaxSteps
    /\ (decimal.from = "value") = (decimal.n % 2 = 0)
    /\ decimal' = [decimal EXCEPT !.text = to_string(decimal.value), !.n = @ + 1]
    /\ UNCHANGED <<clients, history, pc, processed, output, last, before, origin, resolved, chargedback, transactions>>

\* the text held is parsed: parse()
FromStr ==
    /\ decimal.ok
    /\ decimal.n < MaxSteps
    /\ (decimal.from = "text") = (decimal.n % 2 = 0)
    /\ LET p == from_str(decimal.text)
       IN decimal' = [decimal EXCEPT !.value = p.value, !.ok = p.ok, !.n = @ + 1]
    /\ UNCHANGED <<clients, history, pc, processed, output, last, before, origin, resolved, chargedback, transactions>>

NextDecimal ==
    \/ Display
    \/ FromStr

SpecDecimal == InitDecimal /\ [][NextDecimal]_vars

\* ---- process() over an input fixed in advance ------------------------------
MaxInput == 3          \* records of an input sequence: 0..MaxInput

\* the amounts of the records of an input
InputAmounts == {1, MaxAmount}

\* the records an input is made of
Records ==
    {Transaction(k, tx, cid, amount) :
        k \in {"deposit", "withdrawal"}, tx \in Txs, cid \in Cids, amount \in InputAmounts}
    \cup {Transaction(k, tx, cid, 0) :
        k \in {"dispute", "resolve", "chargeback"}, tx \in Txs, cid \in Cids}

Inputs == UNION {[1..n -> Records] : n \in 0..MaxInput}

InitProcess ==
    /\ clients = Engine_new.clients
    /\ history = Engine_new.history
    /\ pc = "loop"
    /\ processed = 0
    /\ output = {}
    /\ last = NoRecord
    /\ before = Engine_new
    /\ origin = <<>>
    /\ resolved = {}
    /\ chargedback = {}
    /\ decimal = NoDecimal
    /\ transactions \in Inputs

\* for transaction in transactions { engine.process_transaction(transaction).ok(); }
process_for ==
    /\ pc = "loop"
    /\ processed < Len(transactions)
    /\ LET n == Iterate(transactions[processed + 1]) IN
        /\ clients' = n.clients
        /\ history' = n.history
        /\ pc' = n.pc
        /\ last' = n.last
        /\ origin' = n.origin
        /\ resolved' = n.resolved
        /\ chargedback' = n.chargedback
    /\ processed' = processed + 1
    /\ before' = Engine
    /\ UNCHANGED <<output, decimal, transactions>>

\* Ok(engine.into_clients()), once the iterator is exhausted
process_return ==
    /\ processed = Len(transactions)
    /\ into_clients

NextProcess ==
    \/ process_for
    \/ process_return

\* process() runs on one thread from its first statement to its return
SpecProcess == InitProcess /\ [][NextProcess]_vars /\ WF_vars(NextProcess)

\* ---- vocabulary of the properties ----------------------------------------
\* the latest record was rejected (process_transaction returned Err)
Rejected == last.res = "Err"

\* the latest record was accepted (process_transaction returned Ok)
Accepted == last.res = "Ok"

\* the client of the latest record was locked when the record arrived
WasLocked(c) == c \in DOMAIN before.clients /\ before.clients[c].locked

\* balances of client c in engine e; a client not yet in the table has the
\* balances it is created with
AvailableIn(e, c) == IF c \in DOMAIN e.clients THEN e.clients[c].available ELSE 0
HeldIn(e, c) == IF c \in DOMAIN e.clients THEN e.clients[c].held ELSE 0

\* ---- C1 -------------------------------------------------------------------
\* C1 (as claimed): whenever the engine rejects a record, the client table
\* (its set of client ids included) and the history table after the record
\* equal those before it.
C1_RejectedLeavesEngineUnchanged ==
    Rejected => clients = before.clients /\ history = before.history

\* C1 (amended): whenever the engine rejects a record, the history table and
\* every account that existed before the record are unchanged; the only
\* possible change is that an account with available = 0, held = 0 and
\* locked = false has been created for the record's client id.
C1_RejectedLeavesBalancesAndHistory ==
    Rejected =>
        /\ history = before.history
        /\ \A c \in DOMAIN before.clients :
              c \in DOMAIN clients /\ clients[c] = before.clients[c]
        /\ \A c \in (DOMAIN clients) \ (DOMAIN before.clients) :
              /\ c = last.cid
              /\ clients[c] = [cid |-> c, available |-> 0, held |-> 0, locked |-> FALSE]

\* a record is rejected for insufficient funds while other accounts and
\* history entries exist
C1_Witness ==
    /\ Rejected
    /\ last.kind = "withdrawal"
    /\ last.tx \notin DOMAIN before.history
    /\ last.cid \in DOMAIN before.clients
    /\ ~before.clients[last.cid].locked
    /\ before.clients[last.cid].available > 0
    /\ DOMAIN history # {}

\* ---- C2 -------------------------------------------------------------------
\* C2: once a client is locked it stays locked, and every later record that
\* carries its client id is rejected and leaves the client's available, held
\* and locked values and the whole history table unchanged.
C2_LockedIsTerminal ==
    \A c \in DOMAIN before.clients :
        before.clients[c].locked =>
            /\ c \in DOMAIN clients
            /\ clients[c].locked
            /\ (last.cid = c /\ last.kind # "none") =>
                  /\ Rejected
                  /\ clients[c] = before.clients[c]
                  /\ history = before.history

\* a deposit with a fresh tx arrives for a locked client and is rejected
C2_Witness ==
    /\ WasLocked(last.cid)
    /\ last.kind = "deposit"
    /\ last.tx \notin DOMAIN before.history
    /\ Rejected

\* ---- C3 -------------------------------------------------------------------
\* C3: the assertion held >= amount of process_chargeback never fires: no
\* record ends in a panic, and in every reachable state every entry on which
\* a chargeback would pass its checks (disputed, owner unlocked) has an amount
\* that is at most the owner's held.
C3_ChargebackAssertionHolds ==
    /\ last.res # "Panic"
    /\ pc # "panic"
    /\ \A t \in DOMAIN history :
          (history[t].disputed /\ history[t].cid \in DOMAIN clients
              /\ ~clients[history[t].cid].locked)
          => clients[history[t].cid].held >= history[t].amount

\* a chargeback passed its checks and the assertion while the client held
\* more than the amount charged back
C3_Witness ==
    /\ last.kind = "chargeback"
    /\ Accepted
    /\ before.history[last.tx].amount > 0
    /\ before.clients[last.cid].held > before.history[last.tx].amount

\* ---- C4 -------------------------------------------------------------------
\* the checks a dispute makes, on the engine as the record found it: the
\* client is unlocked, the entry exists, is owned by the client, is a deposit
\* in the sense of ensure_deposit (amount not negative) and is not disputed
DisputableBefore ==
    /\ ~WasLocked(last.cid)
    /\ last.tx \in DOMAIN before.history
    /\ before.history[last.tx].cid = last.cid
    /\ before.history[last.tx].amount >= 0
    /\ ~before.history[last.tx].disputed

\* C4: a dispute of an undisputed deposit entry owned by the unlocked client
\* is accepted whatever the available balance is; it sets the disputed flag,
\* takes exactly the entry's amount from available and adds exactly that
\* amount to held, so available + held is unchanged.
C4_DisputeMovesAmountToHeld ==
    (last.kind = "dispute" /\ DisputableBefore) =>
        LET amount == before.history[last.tx].amount
            old == before.clients[last.cid]
            new == clients[last.cid]
        IN /\ Accepted
           /\ history = [before.history EXCEPT ![last.tx].disputed = TRUE]
           /\ new.available = old.available - amount
           /\ new.held = old.held + amount
           /\ new.locked = old.locked
           /\ new.available + new.held = old.available + old.held
           /\ \A c \in DOMAIN clients : c # last.cid => clients[c] = before.clients[c]

\* a dispute is accepted although available was smaller than the entry's
\* amount, and available has become negative
C4_Witness ==
    /\ last.kind = "dispute"
    /\ DisputableBefore
    /\ Accepted
    /\ before.clients[last.cid].available < before.history[last.tx].amount
    /\ clients[last.cid].available < 0

\* ---- C5 -------------------------------------------------------------------
\* C5: no history entry recorded by an accepted withdrawal is ever disputed
\* (every dispute of a withdrawal's tx is rejected).
C5_WithdrawalNeverDisputed ==
    \A t \in DOMAIN history : origin[t] = "withdrawal" => ~history[t].disputed

\* ---- C6 -------------------------------------------------------------------
\* C6 (as claimed): after a dispute of tx has been accepted and resolved, the
\* entry never becomes disputed again.
C6_ResolvedNeverDisputedAgain ==
    \A t \in resolved : ~history[t].disputed

\* C6 (amended): a resolve returns the entry to the undisputed state, from
\* which a later dispute of the same tx by its unlocked owner is accepted
\* again; only a chargeback ends the lifecycle: an entry that has been charged
\* back never becomes disputed again.
C6_ResolvedCanBeDisputedAgain ==
    /\ (last.kind = "resolve" /\ Accepted) => ~history[last.tx].disputed
    /\ (last.kind = "dispute" /\ last.tx \in resolved /\ DisputableBefore) =>
          Accepted /\ history[last.tx].disputed
    /\ \A t \in chargedback : ~history[t].disputed

\* a dispute of a tx that was disputed and resolved before is accepted
C6_Witness ==
    /\ last.kind = "dispute"
    /\ last.tx \in resolved
    /\ Accepted
    /\ history[last.tx].disputed

\* ---- C7 -------------------------------------------------------------------
\* the checks a resolve or chargeback makes, on the engine as the record found
\* it: client unlocked, entry exists, owned by the client, currently disputed
SettleableBefore ==
    /\ ~WasLocked(last.cid)
    /\ last.tx \in DOMAIN before.history
    /\ before.history[last.tx].cid = last.cid
    /\ before.history[last.tx].disputed

\* C7: a chargeback is accepted exactly when the client is unlocked and the
\* entry exists, is owned by the client and is disputed; an accepted one
\* clears the disputed flag, takes exactly the entry's amount from held,
\* leaves available unchanged and locks the client.  A chargeback accepted as
\* the third record (after the deposit of a and its dispute on a fresh
\* client) ends with available = 0, held = 0, locked = true.
C7_ChargebackLocksAndReleasesHeld ==
    last.kind = "chargeback" =>
        /\ Accepted <=> SettleableBefore
        /\ Accepted =>
              LET amount == before.history[last.tx].amount
                  old == before.clients[last.cid]
                  new == clients[last.cid]
              IN /\ history = [before.history EXCEPT ![last.tx].disputed = FALSE]
                 /\ new.held = old.held - amount
                 /\ new.available = old.available
                 /\ new.locked
                 /\ \A c \in DOMAIN clients :
                       c # last.cid => clients[c] = before.clients[c]
        /\ (Accepted /\ processed = 3 /\ origin[last.tx] = "deposit") =>
              /\ clients[last.cid].available = 0
              /\ clients[last.cid].held = 0
              /\ clients[last.cid].locked

\* deposit(a) with a > 0, dispute, chargeback were the first three records
C7_Witness ==
    /\ last.kind = "chargeback"
    /\ Accepted
    /\ processed = 3
    /\ origin[last.tx] = "deposit"
    /\ history[last.tx].amount > 0
    /\ clients[last.cid].locked

\* ---- C8 -------------------------------------------------------------------
\* C8: a resolve is accepted exactly when the client is unlocked and the
\* entry exists, is owned by the client and is disputed; an accepted one
\* clears the disputed flag, adds the entry's amount to available and takes
\* it from held.  Resolving right after an accepted dispute restores the
\* client's available and held and the entry's flag to what they were before
\* the dispute.
C8_ResolveUndoesDispute ==
    /\ last.kind = "resolve" =>
          /\ Accepted <=> SettleableBefore
          /\ Accepted =>
                LET amount == before.history[last.tx].amount
                    old == before.clients[last.cid]
                    new == clients[last.cid]
                IN /\ history = [before.history EXCEPT ![last.tx].disputed = FALSE]
                   /\ new.available = old.available + amount
                   /\ new.held = old.held - amount
                   /\ new.locked = old.locked
                   /\ \A c \in DOMAIN clients :
                         c # last.cid => clients[c] = before.clients[c]
    /\ (last.kind = "dispute" /\ Accepted /\ pc = "loop") =>
          LET r == process_transaction(Engine, Transaction("resolve", last.tx, last.cid, 0))
          IN /\ r.res = "Ok"
             /\ r.engine.clients = before.clients
             /\ r.engine.history = before.history

\* a resolve of a disputed entry with a positive amount is accepted
C8_Witness ==
    /\ last.kind = "resolve"
    /\ Accepted
    /\ before.history[last.tx].amount > 0
    /\ clients[last.cid].held = before.clients[last.cid].held - before.history[last.tx].amount

\* ---- C9 -------------------------------------------------------------------
\* C9: a deposit or withdrawal whose tx already has a history entry (of either
\* kind, of any client) is rejected, changes no balance and leaves the
\* existing entry's cid, amount and disputed flag as they were.
C9_DuplicateTxRejected ==
    (last.kind \in {"deposit", "withdrawal"} /\ last.tx \in DOMAIN before.history) =>
        /\ Rejected
        /\ clients = before.clients
        /\ history = before.history

\* a withdrawal reuses the tx of another client's disputed deposit
C9_Witness ==
    /\ last.kind = "withdrawal"
    /\ last.tx \in DOMAIN before.history
    /\ origin[last.tx] = "deposit"
    /\ before.history[last.tx].cid # last.cid
    /\ before.history[last.tx].disputed
    /\ before.history[last.tx].amount >= last.amount
    /\ Rejected

\* ---- C10 ------------------------------------------------------------------
\* C10: a withdrawal with a fresh tx on an unlocked client is accepted if and
\* only if available >= amount; a rejected one leaves available and held as
\* they were and records no entry; after an accepted one available is not
\* negative.
C10_WithdrawalNeverCreatesDebt ==
    (last.kind = "withdrawal" /\ last.tx \notin DOMAIN before.history
        /\ ~WasLocked(last.cid)) =>
        /\ Accepted <=> AvailableIn(before, last.cid) >= last.amount
        /\ Rejected =>
              /\ clients[last.cid].available = AvailableIn(before, last.cid)
              /\ clients[last.cid].held = HeldIn(before, last.cid)
              /\ last.tx \notin DOMAIN history
        /\ Accepted =>
              /\ clients[last.cid].available >= 0
              /\ clients[last.cid].available = AvailableIn(before, last.cid) - last.amount
              /\ clients[last.cid].held = HeldIn(before, last.cid)

\* a withdrawal of more than the positive available balance is rejected
C10_Witness ==
    /\ last.kind = "withdrawal"
    /\ last.tx \notin DOMAIN before.history
    /\ ~WasLocked(last.cid)
    /\ AvailableIn(before, last.cid) > 0
    /\ AvailableIn(before, last.cid) < last.amount
    /\ Rejected

\* ---- C11 ------------------------------------------------------------------
\* locked flag of client c in engine e; a client not yet in the table has the
\* flag it is created with
LockedIn(e, c) == IF c \in DOMAIN e.clients THEN e.clients[c].locked ELSE FALSE

\* the latest record is a dispute, resolve or chargeback
Relative == last.kind \in {"dispute", "resolve", "chargeback"}

\* C11: a dispute, resolve or chargeback whose client id differs from the one
\* stored in the referenced entry is rejected; the entry's disputed flag and
\* the available, held and locked values of the supplied client and of the
\* owning client are unchanged.
C11_CidMismatchRejected ==
    (Relative /\ last.tx \in DOMAIN before.history
        /\ before.history[last.tx].cid # last.cid) =>
        LET owner == before.history[last.tx].cid IN
        /\ Rejected
        /\ history = before.history
        /\ clients[owner] = before.clients[owner]
        /\ clients[last.cid].available = AvailableIn(before, last.cid)
        /\ clients[last.cid].held = HeldIn(before, last.cid)
        /\ clients[last.cid].locked = LockedIn(before, last.cid)

\* a chargeback names a disputed entry of another client; the supplied client
\* has an account, is unlocked and has funds: the mismatch alone rejects it
C11_Witness ==
    /\ last.kind = "chargeback"
    /\ last.tx \in DOMAIN before.history
    /\ before.history[last.tx].cid # last.cid
    /\ before.history[last.tx].disputed
    /\ before.history[last.tx].amount > 0
    /\ last.cid \in DOMAIN before.clients
    /\ ~before.clients[last.cid].locked
    /\ before.clients[last.cid].available > 0
    /\ Rejected

\* ---- C12 ------------------------------------------------------------------
\* C12: a dispute of an entry that is currently disputed is rejected and
\* changes nothing, so a second dispute right after an accepted one leaves the
\* balances, the held amount and the flag as the first one left them.
C12_DisputeIdempotent ==
    /\ (last.kind = "dispute" /\ last.tx \in DOMAIN before.history
          /\ before.history[last.tx].disputed) =>
          /\ Rejected
          /\ history = before.history
          /\ \A c \in DOMAIN before.clients : clients[c] = before.clients[c]
    /\ (last.kind = "dispute" /\ Accepted /\ pc = "loop") =>
          LET r == process_transaction(Engine, Transaction("dispute", last.tx, last.cid, 0))
          IN /\ r.res = "Err"
             /\ r.engine.clients = clients
             /\ r.engine.history = history

\* the unlocked owner disputes again an entry with a positive amount that is
\* under dispute
C12_Witness ==
    /\ last.kind = "dispute"
    /\ last.tx \in DOMAIN before.history
    /\ before.history[last.tx].disputed
    /\ before.history[last.tx].cid = last.cid
    /\ before.history[last.tx].amount > 0
    /\ ~before.clients[last.cid].locked
    /\ Rejected
    /\ clients[last.cid].held = before.history[last.tx].amount

\* ---- C13 ------------------------------------------------------------------
\* the latest record is a deposit or withdrawal whose tx was already in history
DuplicateTx ==
    last.kind \in {"deposit", "withdrawal"} /\ last.tx \in DOMAIN before.history

\* C13 (as claimed): after any record carrying client id c has been
\* processed, accepted or rejected, c has an account.
C13_EveryRecordCreatesAccount ==
    last.kind # "none" => last.cid \in DOMAIN clients

\* C13 (amended): after a record carrying client id c has been processed,
\* accepted or rejected, c has an account, except that a deposit or withdrawal
\* rejected for a tx already in history creates none; only the record's own
\* client id can gain an account, a new account starts from available = 0,
\* held = 0, locked = false, and no account is ever removed.
C13_AccountCreatedOnClientLookup ==
    /\ (last.kind # "none" /\ ~DuplicateTx) => last.cid \in DOMAIN clients
    /\ DuplicateTx => DOMAIN clients = DOMAIN before.clients
    /\ DOMAIN before.clients \subseteq DOMAIN clients
    /\ \A c \in (DOMAIN clients) \ (DOMAIN before.clients) :
          /\ c = last.cid
          /\ clients[c].cid = c
          /\ clients[c].held = 0
          /\ ~clients[c].locked
          /\ clients[c].available =
                IF Rejected THEN 0
                ELSE IF last.kind = "deposit" THEN last.amount
                ELSE 0 - last.amount

\* a rejected dispute of an unknown tx is the first record to name its client
C13_Witness ==
    /\ last.kind = "dispute"
    /\ last.tx \notin DOMAIN before.history
    /\ Rejected
    /\ DOMAIN before.clients # {}
    /\ last.cid \notin DOMAIN before.clients
    /\ last.cid \in DOMAIN clients

\* ---- C14 ------------------------------------------------------------------
\* the amount log() stores for the latest record: negated for a withdrawal
LoggedAmount == IF last.kind = "withdrawal" THEN 0 - last.amount ELSE last.amount

\* C14: the history table gains an entry exactly when a deposit or withdrawal
\* is accepted (the entry is undisputed and carries the record's cid and
\* signed amount); a rejected record adds none; no entry is removed; cid and
\* amount of an entry never change; its disputed flag changes only through an
\* accepted dispute, resolve or chargeback of that tx.
C14_HistoryOneEntryPerAccepted ==
    /\ DOMAIN before.history \subseteq DOMAIN history
    /\ DOMAIN origin = DOMAIN history
    /\ \A t \in DOMAIN before.history :
          /\ history[t].cid = before.history[t].cid
          /\ history[t].amount = before.history[t].amount
          /\ history[t].disputed # before.history[t].disputed =>
                Accepted /\ Relative /\ last.tx = t
    /\ \A t \in (DOMAIN history) \ (DOMAIN before.history) :
          /\ Accepted
          /\ last.kind \in {"deposit", "withdrawal"}
          /\ t = last.tx
          /\ origin[t] = last.kind
          /\ history[t] = [cid |-> last.cid, amount |-> LoggedAmount, disputed |-> FALSE]
    /\ (Accepted /\ last.kind \in {"deposit", "withdrawal"}) =>
          last.tx \in (DOMAIN history) \ (DOMAIN before.history)
    /\ ~Accepted => DOMAIN history = DOMAIN before.history

\* a withdrawal with a fresh tx is rejected for insufficient funds and its tx
\* stays free, next to an entry that is under dispute
C14_Witness ==
    /\ last.kind = "withdrawal"
    /\ Rejected
    /\ last.tx \notin DOMAIN before.history
    /\ last.tx \notin DOMAIN history
    /\ ~LockedIn(before, last.cid)
    /\ \E t \in DOMAIN history : history[t].disputed

\* ---- C15 ------------------------------------------------------------------
\* C15: a deposit with a fresh tx on an unlocked client is always accepted; it
\* adds exactly amount to the client's available, leaves held and locked as
\* they were and records {cid, +amount, disputed = false} under tx.
C15_DepositCreditsAvailable ==
    (last.kind = "deposit" /\ last.tx \notin DOMAIN before.history
        /\ ~WasLocked(last.cid)) =>
        /\ Accepted
        /\ clients[last.cid].available = AvailableIn(before, last.cid) + last.amount
        /\ clients[last.cid].held = HeldIn(before, last.cid)
        /\ ~clients[last.cid].locked
        /\ last.tx \in DOMAIN history
        /\ history[last.tx] = [cid |-> last.cid, amount |-> last.amount, disputed |-> FALSE]
        /\ \A t \in DOMAIN before.history : history[t] = before.history[t]
        /\ \A c \in DOMAIN before.clients : c # last.cid => clients[c] = before.clients[c]

\* a positive deposit is accepted on a client that has funds held
C15_Witness ==
    /\ last.kind = "deposit"
    /\ Accepted
    /\ last.amount > 0
    /\ last.cid \in DOMAIN before.clients
    /\ before.clients[last.cid].held > 0
    /\ clients[last.cid].available = before.clients[last.cid].available + last.amount

\* ---- C16 ------------------------------------------------------------------
\* C16: a dispute, resolve or chargeback that arrives while its tx has no
\* history entry is rejected and leaves no trace: history and the existing
\* accounts are unchanged, and a deposit of that tx accepted next records an
\* undisputed entry, credits the full amount to available and adds nothing
\* to held.
C16_RejectedRecordNeverAppliedLater ==
    (Relative /\ last.tx \notin DOMAIN before.history) =>
        /\ Rejected
        /\ history = before.history
        /\ \A c \in DOMAIN before.clients : clients[c] = before.clients[c]
        /\ clients[last.cid].available = AvailableIn(before, last.cid)
        /\ clients[last.cid].held = HeldIn(before, last.cid)
        /\ (pc = "loop" /\ ~clients[last.cid].locked) =>
              \A a \in Amounts :
                  LET r == process_transaction(Engine,
                               Transaction("deposit", last.tx, last.cid, a))
                  IN /\ r.res = "Ok"
                     /\ r.engine.history[last.tx] =
                           [cid |-> last.cid, amount |-> a, disputed |-> FALSE]
                     /\ r.engine.clients[last.cid].available =
                           AvailableIn(before, last.cid) + a
                     /\ r.engine.clients[last.cid].held = HeldIn(before, last.cid)

\* a dispute of a tx not yet in history is rejected for that reason alone:
\* its client has an account, is unlocked and has funds
C16_Witness ==
    /\ last.kind = "dispute"
    /\ last.tx \notin DOMAIN before.history
    /\ last.cid \in DOMAIN before.clients
    /\ ~before.clients[last.cid].locked
    /\ before.clients[last.cid].available > 0
    /\ Rejected
    /\ last.tx \notin DOMAIN history

\* ---- C17 ------------------------------------------------------------------
\* a text the specification calls valid, with at most 4 fractional digits:
\* an optional '-', one integral digit or more, and optionally a dot followed
\* by 0 to 4 digits
ValidText(text) ==
    LET s == strip_prefix(trim(text), "-").rest
    IN \E k \in 1..Len(s) :
          /\ \A i \in 1..k : is_digit(s[i])
          /\ \/ k = Len(s)
             \/ /\ s[k + 1] = "."
                /\ Len(s) - (k + 1) <= 4
                /\ \A i \in (k + 2)..Len(s) : is_digit(s[i])

\* the canonical form: '-' only before a value that is not zero, an integral part
\* without a needless leading zero, a dot, 1 to 4 fractional digits of which
\* the last is 0 only when it is the only one
Canonical(text) ==
    LET s == strip_prefix(text, "-").rest
    IN \E k \in 1..Len(s) :
          /\ \A i \in 1..k : is_digit(s[i])
          /\ k > 1 => s[1] # "0"
          /\ k < Len(s)
          /\ s[k + 1] = "."
          /\ Len(s) - (k + 1) \in 1..4
          /\ \A i \in (k + 2)..Len(s) : is_digit(s[i])
          /\ Len(s) - (k + 1) > 1 => s[Len(s)] # "0"
          /\ text # s => \E i \in 1..Len(s) : is_digit(s[i]) /\ s[i] # "0"

\* C17: parsing the text rendered from a Decimal d gives back d; rendering
\* the value parsed from a valid text with at most 4 fractional digits gives
\* the canonical form, and parsing and rendering that form again gives the
\* same value and the same text.
C17_DecimalRoundTrip ==
    /\ (decimal.from = "value" /\ decimal.n = 1) =>
          /\ Canonical(decimal.text)
          /\ (decimal.d0 < 0) = (Head(decimal.text) = "-")
    /\ (decimal.from = "value" /\ decimal.n >= 2) =>
          decimal.ok /\ decimal.value = decimal.d0
    /\ (decimal.from = "text" /\ ValidText(decimal.s0)) =>
          /\ decimal.ok
          /\ decimal.n >= 2 =>
                /\ Canonical(decimal.text)
                /\ (from_str(decimal.s0).value < 0) = (Head(decimal.text) = "-")
                /\ decimal.text = to_string(from_str(decimal.s0).value)
          /\ decimal.n >= 3 => decimal.value = from_str(decimal.s0).value

\* a padded negative text with a leading zero and trailing fractional zeros
\* has been parsed, rendered, parsed and rendered again, to a shorter text
C17_Witness ==
    /\ decimal.from = "text"
    /\ decimal.n = 4
    /\ ValidText(decimal.s0)
    /\ decimal.s0 = <<" ", "-", "0", "7", ".", "0", "7", "0", "0", " ">>
    /\ decimal.text = <<"-", "7", ".", "0", "7">>
    /\ decimal.value = 0 - Decimal_new(7, 700)

\* ---- C18 ------------------------------------------------------------------
\* C18: on a client whose available and held are both 0, a deposit of a with
\* a fresh tx is accepted, and the withdrawal of the same a with another fresh
\* tx that follows it is accepted too and leaves available = 0 and held = 0.
C18_DepositThenWithdrawalLeavesZero ==
    (last.kind = "deposit" /\ last.tx \notin DOMAIN before.history
        /\ ~WasLocked(last.cid)
        /\ AvailableIn(before, last.cid) = 0 /\ HeldIn(before, last.cid) = 0) =>
        /\ Accepted
        /\ pc = "loop" =>
              \A tx2 \in Txs \ DOMAIN history :
                  LET r == process_transaction(Engine,
                               Transaction("withdrawal", tx2, last.cid, last.amount))
                  IN /\ r.res = "Ok"
                     /\ r.engine.clients[last.cid].available = 0
                     /\ r.engine.clients[last.cid].held = 0

\* the withdrawal of a > 0 is accepted right after the deposit of a, the
\* first two records of the run, and the client is back at 0, 0
C18_Witness ==
    /\ processed = 2
    /\ last.kind = "withdrawal"
    /\ Accepted
    /\ last.amount > 0
    /\ \E t \in DOMAIN before.history :
          /\ origin[t] = "deposit"
          /\ before.history[t] = [cid |-> last.cid, amount |-> last.amount, disputed |-> FALSE]
    /\ clients[last.cid].available = 0
    /\ clients[last.cid].held = 0

\* ---- C19 ------------------------------------------------------------------
\* the sum of the amounts of the entries of h whose tx is in S
RECURSIVE SumAmounts(_, _)
SumAmounts(h, S) ==
    IF S = {} THEN 0
    ELSE LET t == CHOOSE x \in S : TRUE
         IN h[t].amount + SumAmounts(h, S \ {t})

\* the entries of client c, and those of them that are under dispute
EntriesOf(c) == {t \in DOMAIN history : history[t].cid = c}
DisputedOf(c) == {t \in EntriesOf(c) : history[t].disputed}

\* C19: for every client, locked or not, held is the sum of the amounts of its
\* entries that are under dispute; every such entry has a non-negative amount,
\* so held is never negative.
C19_HeldIsSumOfDisputed ==
    /\ \A t \in DOMAIN history : history[t].cid \in DOMAIN clients
    /\ \A t \in DOMAIN history : history[t].disputed => history[t].amount >= 0
    /\ \A c \in DOMAIN clients :
          /\ clients[c].held = SumAmounts(history, DisputedOf(c))
          /\ clients[c].held >= 0

\* a locked client still holds the amount of a second entry under dispute
C19_Witness ==
    \E c \in DOMAIN clients :
        /\ clients[c].locked
        /\ clients[c].held > 0
        /\ DisputedOf(c) # {}
        /\ \E t \in chargedback : history[t].cid = c /\ history[t].amount > 0

\* ---- C20 ------------------------------------------------------------------
\* the entries of client c that have been charged back
ChargedBackOf(c) == {t \in EntriesOf(c) : t \in chargedback}

\* C20: for every client, available + held (the total of its output row) is
\* the sum of the signed amounts of its history entries minus the amount of
\* the entry charged back for it, of which there is at most one; a client
\* without a chargeback, as every unlocked client is, has the plain sum.
C20_FundsConserved ==
    \A c \in DOMAIN clients :
        /\ Cardinality(ChargedBackOf(c)) <= 1
        /\ ~clients[c].locked => ChargedBackOf(c) = {}
        /\ OutputClient(clients[c]).total =
              SumAmounts(history, EntriesOf(c)) - SumAmounts(history, ChargedBackOf(c))
        /\ clients[c].available + clients[c].held = OutputClient(clients[c]).total
        /\ (last.kind \in {"dispute", "resolve"} /\ c \in DOMAIN before.clients) =>
              clients[c].available + clients[c].held =
                  before.clients[c].available + before.clients[c].held
        /\ (Accepted /\ last.kind = "deposit" /\ last.cid = c) =>
              history[last.tx].amount = last.amount
        /\ (Accepted /\ last.kind = "withdrawal" /\ last.cid = c) =>
              history[last.tx].amount = 0 - last.amount

\* a client with a deposit and a withdrawal lost a positive amount to a
\* chargeback and is left with a total that is not zero
C20_Witness ==
    \E c \in DOMAIN clients :
        /\ \E t \in ChargedBackOf(c) : history[t].amount > 0
        /\ \E t \in EntriesOf(c) : origin[t] = "withdrawal" /\ history[t].amount < 0
        /\ clients[c].available + clients[c].held # 0

\* ---- C21 ------------------------------------------------------------------
\* C21: a record that carries client id c leaves the account of every other
\* client as it was (available, held and locked) and creates no account but
\* that of c; a dispute, resolve or chargeback leaves the entries owned by
\* other clients, their disputed flag included, as they were.
C21_OtherClientsUntouched ==
    last.kind # "none" =>
        /\ DOMAIN clients \subseteq DOMAIN before.clients \cup {last.cid}
        /\ \A c \in DOMAIN before.clients :
              c # last.cid =>
                  /\ c \in DOMAIN clients
                  /\ clients[c].available = before.clients[c].available
                  /\ clients[c].held = before.clients[c].held
                  /\ clients[c].locked = before.clients[c].locked
        /\ Relative =>
              \A t \in DOMAIN before.history :
                  before.history[t].cid # last.cid =>
                      /\ t \in DOMAIN history
                      /\ history[t] = before.history[t]

\* a dispute is accepted for one client while another client has funds held
\* for an entry under dispute of its own
C21_Witness ==
    /\ last.kind = "dispute"
    /\ Accepted
    /\ \E c \in DOMAIN before.clients :
          /\ c # last.cid
          /\ clients[c].held > 0
          /\ clients[c] = before.clients[c]
          /\ \E t \in DOMAIN history : history[t].cid = c /\ history[t].disputed

\* ---- C22 ------------------------------------------------------------------
\* C22: a client is locked exactly when a chargeback has been accepted for one
\* of its entries, and that has happened for at most one entry per client; a
\* client becomes locked only by an accepted chargeback that carries its id,
\* and a locked client stays locked.
C22_LockedIffChargedBack ==
    /\ \A c \in DOMAIN clients :
          /\ clients[c].locked = (ChargedBackOf(c) # {})
          /\ Cardinality(ChargedBackOf(c)) <= 1
          /\ (clients[c].locked /\ ~LockedIn(before, c)) =>
                /\ last.kind = "chargeback"
                /\ Accepted
                /\ last.cid = c
                /\ last.tx \in ChargedBackOf(c)
    /\ \A t \in chargedback : t \in DOMAIN history
    /\ \A c \in DOMAIN before.clients :
          before.clients[c].locked => c \in DOMAIN clients /\ clients[c].locked

\* a second chargeback, for another entry of a client that is locked already,
\* is rejected: the client keeps its one chargeback
C22_Witness ==
    /\ last.kind = "chargeback"
    /\ Rejected
    /\ WasLocked(last.cid)
    /\ last.tx \in DOMAIN history
    /\ history[last.tx].cid = last.cid
    /\ last.tx \notin chargedback
    /\ Cardinality(ChargedBackOf(last.cid)) = 1
    /\ clients[last.cid].locked

\* ---- C23 ------------------------------------------------------------------
\* the engine after the first n records of the input have been applied, each
\* once and in the order of arrival
RECURSIVE Applied(_)
Applied(n) ==
    IF n = 0 THEN Engine_new
    ELSE process_transaction(Applied(n - 1), transactions[n]).engine

\* the result the n-th record gets on its arrival
ResultOf(n) == process_transaction(Applied(n - 1), transactions[n]).res

\* the pass so far: processed records applied once each in order, the latest
\* one being record number processed
C23_PassSoFar ==
    /\ processed <= Len(transactions)
    /\ pc # "panic"
    /\ Engine = Applied(processed)
    /\ processed > 0 =>
          /\ before = Applied(processed - 1)
          /\ last = [kind |-> transactions[processed].kind,
                     tx |-> transactions[processed].tx,
                     cid |-> transactions[processed].cid,
                     amount |-> transactions[processed].amount,
                     res |-> ResultOf(processed)]
    /\ pc = "done" =>
          /\ processed = Len(transactions)
          /\ output = {clients[c] : c \in DOMAIN clients}

\* one step takes exactly one record, or is the return, after which nothing
\* changes
C23_OneRecordPerStep ==
    \/ pc = "loop" /\ pc' = "loop" /\ processed' = processed + 1
    \/ pc = "loop" /\ pc' = "done" /\ processed' = processed
          /\ clients' = clients /\ history' = history

\* C23: for every input of n records the engine takes exactly n steps, each
\* applying the next record once in the order of arrival, none of them a
\* retry of a rejected record, and then it terminates and yields the clients.
C23_SinglePassTerminates ==
    /\ []C23_PassSoFar
    /\ [][C23_OneRecordPerStep]_vars
    /\ <>(pc = "done")

\* the run has ended on an input of three records whose first, a dispute, was
\* rejected, and whose third, the same dispute arriving again after the
\* deposit it refers to, was accepted
C23_Witness ==
    /\ pc = "done"
    /\ processed = 3
    /\ Len(transactions) = 3
    /\ transactions[1].kind = "dispute"
    /\ ResultOf(1) = "Err"
    /\ transactions[2].kind = "deposit"
    /\ transactions[2].tx = transactions[1].tx
    /\ ResultOf(2) = "Ok"
    /\ transactions[3] = transactions[1]
    /\ last.res = "Ok"
    /\ output # {}

====
